---- MODULE Spec2Model ----
(***************************************************************************)
(* The capture / extraction / synthesis / playback orchestrator of the     *)
(* storybook reader (mobile/App.tsx).                                      *)
(*                                                                         *)
(* JavaScript runs one handler at a time and an async function gives up    *)
(* control only at an await of a native or network call.  Every action     *)
(* below is therefore the code between two such awaits: the start of a     *)
(* handler up to its first pending await, or the resumption after one      *)
(* await up to the next.  An await of a promise that is already settled    *)
(* (cleanupSound returning early) resumes in the same microtask drain and  *)
(* is part of the same action.  React state is read as of the latest       *)
(* render, which follows every handler step.                               *)
(*                                                                         *)
(* Spec is the orchestrator with the health check of the mount effect.     *)
(* The status button, which repeats the health check from the Home screen  *)
(* and touches serverStatus only, is exercised by SpecHome: Take Photo is  *)
(* the one reader of serverStatus, so every run of the audio state with    *)
(* repeated health checks is also a run of Spec.                           *)
(*                                                                         *)
(* The repository also holds the same reader split into screens and        *)
(* components.  SpecScreens is HomeScreen, CameraScreen and PlayerScreen    *)
(* over ApiService; SpecAudioPlayer is the AudioPlayer component under a   *)
(* parent that may change its payload or unmount it at any time.  State   *)
(* that carries the same name in both versions (serverStatus, isProcessing,*)
(* sound, soundRef, isPlaying, ...) is held in the same variable; screen   *)
(* is the current route of the navigator in SpecScreens.                   *)
(* SpecSpeed is the same component with its speed buttons, and             *)
(* SpecCallsReturn is Spec when every call a synthesis request awaits      *)
(* returns.                                                                *)
(***************************************************************************)
EXTENDS Integers, Sequences, FiniteSets, Bags, TLC

\* ---- bounds of the model -------------------------------------------------
MaxEpoch == 8      \* largest value ttsRequestId may reach
MaxTasks == 2      \* user handlers (navigation, capture, play/pause) in flight at once
MaxChecks == 4     \* health checks in flight, counted from the oldest one in flight
MaxLoads == 2      \* payloads an AudioPlayer is given, one after the other
MaxDuration == 1   \* longest audio, in seconds
MaxHandlers == 1   \* transport handlers of an AudioPlayer (seek, restart, play/pause) in flight at once
MaxCompletions == 1  \* calls of the onPlaybackComplete a parent gave to an AudioPlayer

\* ---- values --------------------------------------------------------------
Null == "null"
NoSound == 0
Screens == {"home", "camera", "player"}

\* bodies of an /api/ocr response: text is a sequence of characters, present
\* = FALSE is a body without a text field, lang = "" one without a
\* detected_language
OcrResults == {[present |-> FALSE, text |-> <<>>,         lang |-> ""],
               [present |-> TRUE,  text |-> <<>>,         lang |-> "en"],
               [present |-> TRUE,  text |-> <<" ">>,      lang |-> "en"],
               [present |-> TRUE,  text |-> <<"a">>,      lang |-> "en"],
               [present |-> TRUE,  text |-> <<" ", "b">>, lang |-> ""]}
CaptureErrors == {"Failed to capture", "Server error"}
FetchErrors == {"Server error", "Network request failed"}
LoadError == "Load failed"

VARIABLES
    screen,             \* App.tsx:23
    serverStatus,       \* App.tsx:24
    permission,         \* App.tsx:25  permission?.granted
    isProcessing,       \* App.tsx:26
    extractedText,      \* App.tsx:31
    sound,              \* App.tsx:32
    isPlaying,          \* App.tsx:33
    audioReady,         \* App.tsx:34
    isGeneratingAudio,  \* App.tsx:35
    ttsError,           \* App.tsx:36
    detectedLanguage,   \* App.tsx:37
    soundRef,           \* App.tsx:38
    ttsRequestId,       \* App.tsx:39
    gens,               \* the generateAudio invocations, by their requestId
    tasks,              \* bag of the other async handlers in flight
    loaded,             \* Audio.Sound handles created and not yet unloaded
    playing,            \* handles the audio engine is playing
    alert,              \* message of the alert dialog on display, Null when none is
    checks,             \* the checkServer invocations from the oldest pending one on, in order of issue
    ttsModelLoaded,     \* HomeScreen.tsx:30
    mounted,            \* an AudioPlayer is mounted
    audioBase64,        \* AudioPlayer.tsx:19  the prop, by the number of the payload
    duration,           \* AudioPlayer.tsx:20  the prop, in seconds
    loads,              \* the runs of the AudioPlayer effect (loadAudio), by the payload they load
    position,           \* AudioPlayer.tsx:25
    positionMillis,     \* position the audio engine holds for each handle
    playbackSpeed,      \* AudioPlayer.tsx:26  in hundredths
    rate,               \* rate the audio engine holds for each handle, in hundredths
    onPlaybackComplete, \* AudioPlayer.tsx:21  the parent passed the prop
    completions         \* calls of the parent's onPlaybackComplete so far

appVars == <<screen, serverStatus, permission, isProcessing, extractedText, sound,
             isPlaying, audioReady, isGeneratingAudio, ttsError, detectedLanguage,
             soundRef, ttsRequestId, gens, tasks, loaded, playing, alert, checks>>

\* state of the component version only (src/screens, src/components)
compVars == <<ttsModelLoaded, mounted, audioBase64, duration, loads, position,
              positionMillis, playbackSpeed, rate, onPlaybackComplete, completions>>

speedVars == <<playbackSpeed, rate>>
parentVars == <<onPlaybackComplete, completions>>

vars == <<appVars, compVars>>

homeVars  == <<serverStatus, permission, checks>>
pageVars  == <<extractedText, detectedLanguage>>
flagVars  == <<audioReady, isGeneratingAudio, ttsError>>
soundVars == <<sound, soundRef>>
engineVars == <<loaded, playing>>

Epochs == 1..MaxEpoch
NoGen == [pc |-> "none", text |-> <<>>, lang |-> "", cur |-> NoSound]

Payloads == 1..MaxLoads

\* playback rates in hundredths: the rate of a new handle and of
\* useState(1.0), and the speedOptions of the AudioPlayer
DefaultRate == 100
SpeedOptions == {50, 75, 100, 125, 150}
NoLoad == [pc |-> "none", isMounted |-> FALSE, cur |-> NoSound]

\* ---- pure helpers --------------------------------------------------------

\* String.prototype.trim on a sequence of characters
RECURSIVE TrimLeft(_)
TrimLeft(t) == IF t # <<>> /\ Head(t) = " " THEN TrimLeft(Tail(t)) ELSE t

RECURSIVE TrimRight(_)
TrimRight(t) == IF t # <<>> /\ t[Len(t)] = " "
                THEN TrimRight(SubSeq(t, 1, Len(t) - 1)) ELSE t

Trim(t) == TrimRight(TrimLeft(t))

\* !result.text || !result.text.trim()
NoTextFound(r) == (~r.present) \/ r.text = <<>> \/ Trim(r.text) = <<>>

\* LanguageOf without the 'auto' default
LanguageOfNoDefault(r) == r.lang

\* result.detected_language || 'auto'
LanguageOf(r) == IF r.lang = "" THEN "auto" ELSE r.lang

\* ttsRequestId.current === requestId
IsCurrent(rid) == ttsRequestId = rid

\* the model's budget of epochs: n more increments now, one kept for the
\* generateAudio of a capture that is in flight
EpochFree(n) == ttsRequestId + n + (IF isProcessing THEN 1 ELSE 0) <= MaxEpoch

TaskFree == BagCardinality(tasks) < MaxTasks

\* Alert.alert opens a modal dialog: no button of the app can be pressed
\* until the user has dismissed it
CanPress == alert = Null

AddTask(t) == tasks (+) SetToBag({t})
DropTask(t) == tasks (-) SetToBag({t})

GenInFlight(rid) == gens[rid].pc \in {"fetch", "stop", "unload", "write", "create"}

\* no screen or component of the component version is in use
NoComponent ==
    /\ ttsModelLoaded = FALSE
    /\ mounted = FALSE
    /\ audioBase64 = 0
    /\ duration = 0
    /\ loads = [e \in Payloads |-> NoLoad]
    /\ position = 0
    /\ positionMillis = [h \in Payloads |-> 0]
    /\ playbackSpeed = DefaultRate
    /\ rate = [h \in Payloads |-> DefaultRate]
    /\ onPlaybackComplete = FALSE
    /\ completions = 0

Init ==
    /\ screen = "home"
    /\ serverStatus = "checking"
    /\ permission = FALSE
    /\ isProcessing = FALSE
    /\ extractedText = <<>>
    /\ sound = NoSound
    /\ isPlaying = FALSE
    /\ audioReady = FALSE
    /\ isGeneratingAudio = FALSE
    /\ ttsError = Null
    /\ detectedLanguage = "auto"
    /\ soundRef = NoSound
    /\ ttsRequestId = 0
    /\ gens = [r \in Epochs |-> NoGen]
    /\ tasks = EmptyBag
    /\ loaded = {}
    /\ playing = {}
    /\ alert = Null
    /\ checks = <<"pending">>
    /\ NoComponent

\* ---- the audio engine (expo-av), as the code uses it ----------------------

\* onPlaybackStatusUpdate of handle s, called by the engine with the status
\* of s when s is loaded in ld and the engine plays the handles pl: the
\* value of isPlaying it leaves (cur when the status is not loaded)
OnPlaybackStatusUpdate(s, ld, pl, cur) == IF s \in ld THEN s \in pl ELSE cur

\* await currentSound.stopAsync() inside try/catch: a loaded handle stops and
\* reports its status; an unloaded one throws and the error is ignored
StopAsync(s) ==
    /\ playing' = playing \ {s}
    /\ loaded' = loaded
    /\ isPlaying' = OnPlaybackStatusUpdate(s, loaded, playing \ {s}, isPlaying)

\* UnloadAndClear with the unloadAsync call left out: the references are
\* cleared and the handle stays loaded
ClearWithoutUnload(s) ==
    /\ loaded' = loaded
    /\ playing' = playing
    /\ soundRef' = NoSound
    /\ sound' = NoSound
    /\ isPlaying' = FALSE

\* await currentSound.unloadAsync() followed by the tail of cleanupSound
UnloadAndClear(s) ==
    /\ loaded' = loaded \ {s}
    /\ playing' = playing \ {s}
    /\ soundRef' = NoSound
    /\ sound' = NoSound
    /\ isPlaying' = FALSE

\* Invalidate without setIsGeneratingAudio(false)
InvalidateKeepsSpinner ==
    /\ ttsRequestId' = ttsRequestId + 1
    /\ isGeneratingAudio' = isGeneratingAudio
    /\ audioReady' = FALSE
    /\ ttsError' = Null

\* Invalidate without the increment of ttsRequestId
InvalidateSameId ==
    /\ ttsRequestId' = ttsRequestId
    /\ isGeneratingAudio' = FALSE
    /\ audioReady' = FALSE
    /\ ttsError' = Null

\* the synchronous head of cleanupSound(true)
Invalidate ==
    /\ ttsRequestId' = ttsRequestId + 1
    /\ isGeneratingAudio' = FALSE
    /\ audioReady' = FALSE
    /\ ttsError' = Null

\* ---- generateAudio --------------------------------------------------------

\* GenerateAudio reading ttsRequestId.current where the code has
\* ++ttsRequestId.current
GenerateAudioSameId(text, language) ==
    /\ ttsRequestId' = ttsRequestId
    /\ isGeneratingAudio' = TRUE
    /\ audioReady' = FALSE
    /\ ttsError' = Null
    /\ gens' = [gens EXCEPT ![ttsRequestId] =
                   [pc |-> "fetch", text |-> text, lang |-> language, cur |-> NoSound]]

\* generateAudio up to its await of fetch: called by handleCapture and by the
\* retry button
GenerateAudio(text, language) ==
    /\ ttsRequestId' = ttsRequestId + 1
    /\ isGeneratingAudio' = TRUE
    /\ audioReady' = FALSE
    /\ ttsError' = Null
    /\ gens' = [gens EXCEPT ![ttsRequestId + 1] =
                   [pc |-> "fetch", text |-> text, lang |-> language, cur |-> NoSound]]

GenMove(rid, pc, cur) == gens' = [gens EXCEPT ![rid].pc = pc, ![rid].cur = cur]

\* generateAudio of request rid returns without having made a handle: how is
\* "discarded" (the return of line 143 or 149) or "failed" (the catch block ran)
GenEnd(rid, how) == gens' = [gens EXCEPT ![rid] = [NoGen EXCEPT !.pc = how]]

\* GenCatch without the requestId test of the catch block
GenCatchUnchecked(rid, e) ==
    /\ ttsError' = e
    /\ audioReady' = FALSE
    /\ isGeneratingAudio' = IF IsCurrent(rid) THEN FALSE ELSE isGeneratingAudio
    /\ GenEnd(rid, "failed")

\* GenCatch without the finally block
GenCatchKeepsSpinner(rid, e) ==
    /\ IF IsCurrent(rid)
       THEN /\ ttsError' = e
            /\ audioReady' = FALSE
            /\ isGeneratingAudio' = isGeneratingAudio
            /\ GenEnd(rid, "failed")
       ELSE /\ UNCHANGED flagVars
            /\ GenEnd(rid, "discarded")

\* the catch and finally blocks of generateAudio for request rid, error e
GenCatch(rid, e) ==
    /\ IF IsCurrent(rid)
       THEN /\ ttsError' = e
            /\ audioReady' = FALSE
            /\ isGeneratingAudio' = FALSE
            /\ GenEnd(rid, "failed")
       ELSE /\ UNCHANGED flagVars
            /\ GenEnd(rid, "discarded")

\* GenResponse with a failure that also takes the text off the screen
GenResponseRetractsText(rid, outcome) ==
    /\ gens[rid].pc = "fetch"
    /\ IF outcome = "ok"
       THEN /\ UNCHANGED <<flagVars, pageVars>>
            /\ IF ~IsCurrent(rid)
               THEN GenEnd(rid, "discarded")
               ELSE IF soundRef = NoSound
                    THEN GenMove(rid, "write", NoSound)
                    ELSE GenMove(rid, "stop", soundRef)
       ELSE /\ GenCatch(rid, outcome)
            /\ extractedText' = IF IsCurrent(rid) THEN <<>> ELSE extractedText
            /\ detectedLanguage' = detectedLanguage
    /\ UNCHANGED <<screen, homeVars, isProcessing, soundVars, isPlaying,
                   ttsRequestId, tasks, engineVars, alert>>
    /\ UNCHANGED compVars

\* the /api/tts response of request rid arrives: outcome "ok" (response.ok and
\* a JSON body) or an error message (non-OK status, or fetch rejected)
GenResponse(rid, outcome) ==
    /\ gens[rid].pc = "fetch"
    /\ IF outcome = "ok"
       THEN /\ UNCHANGED flagVars
            /\ IF ~IsCurrent(rid)
               THEN GenEnd(rid, "discarded")
               ELSE IF soundRef = NoSound
                    THEN GenMove(rid, "write", NoSound)
                    ELSE GenMove(rid, "stop", soundRef)
       ELSE GenCatch(rid, outcome)
    /\ UNCHANGED <<screen, homeVars, isProcessing, pageVars, soundVars, isPlaying,
                   ttsRequestId, tasks, engineVars, alert>>
    /\ UNCHANGED compVars

\* cleanupSound(false) of request rid: stopAsync returns
GenStop(rid) ==
    /\ gens[rid].pc = "stop"
    /\ StopAsync(gens[rid].cur)
    /\ GenMove(rid, "unload", gens[rid].cur)
    /\ UNCHANGED <<screen, homeVars, isProcessing, pageVars, soundVars, flagVars,
                   ttsRequestId, tasks, alert>>
    /\ UNCHANGED compVars

\* cleanupSound(false) of request rid: unloadAsync returns, cleanupSound ends
\* and loadAudioFromBase64 starts the file write
GenUnload(rid) ==
    /\ gens[rid].pc = "unload"
    /\ UnloadAndClear(gens[rid].cur)
    /\ GenMove(rid, "write", NoSound)
    /\ UNCHANGED <<screen, homeVars, isProcessing, pageVars, flagVars,
                   ttsRequestId, tasks, alert>>
    /\ UNCHANGED compVars

\* loadAudioFromBase64 of request rid: writeAsStringAsync and then
\* setAudioModeAsync return (ok), or one of them throws; createAsync starts
GenWrite(rid, ok) ==
    /\ gens[rid].pc = "write"
    /\ IF ok THEN GenMove(rid, "create", NoSound) /\ UNCHANGED flagVars
             ELSE GenCatch(rid, LoadError)
    /\ UNCHANGED <<screen, homeVars, isProcessing, pageVars, soundVars, isPlaying,
                   ttsRequestId, tasks, engineVars, alert>>
    /\ UNCHANGED compVars

\* loadAudioFromBase64 of request rid: Sound.createAsync returns the new
\* handle (named after the request that made it) or throws; on success the
\* rest of generateAudio runs: setAudioReady(true) and the finally block; the
\* record of the request stays as the record of what the handle plays
GenCreate(rid, ok) ==
    /\ gens[rid].pc = "create"
    /\ IF ok
       THEN /\ loaded' = loaded \cup {rid}
            /\ playing' = playing
            /\ isPlaying' = OnPlaybackStatusUpdate(rid, loaded \cup {rid}, playing, isPlaying)
            /\ soundRef' = rid
            /\ sound' = rid
            /\ audioReady' = TRUE
            /\ isGeneratingAudio' = IF IsCurrent(rid) THEN FALSE ELSE isGeneratingAudio
            /\ ttsError' = ttsError
            /\ GenMove(rid, "ready", NoSound)
       ELSE /\ GenCatch(rid, LoadError)
            /\ UNCHANGED <<soundVars, isPlaying, engineVars>>
    /\ UNCHANGED <<screen, homeVars, isProcessing, pageVars, ttsRequestId, tasks, alert>>
    /\ UNCHANGED compVars

\* ---- Home screen ----------------------------------------------------------

\* checkServer, from the status button (the call at mount is in Init)
CheckServer ==
    /\ screen = "home"
    /\ CanPress
    /\ Len(checks) < MaxChecks
    /\ serverStatus' = "checking"
    /\ checks' = Append(checks, "pending")
    /\ UNCHANGED <<screen, permission, isProcessing, pageVars, soundVars, isPlaying,
                   flagVars, ttsRequestId, gens, tasks, engineVars, alert>>
    /\ UNCHANGED compVars

\* the invocations of checkServer that are left of cs once the ones older
\* than the oldest pending one are forgotten
RECURSIVE Forget(_)
Forget(cs) == IF cs # <<>> /\ Head(cs) = "done" THEN Forget(Tail(cs)) ELSE cs

\* CheckServerDone without the else branch and the catch block
CheckServerDoneOkOnly(i, ok) ==
    /\ checks[i] = "pending"
    /\ serverStatus' = IF ok THEN "connected" ELSE serverStatus
    /\ checks' = Forget([checks EXCEPT ![i] = "done"])
    /\ UNCHANGED <<screen, permission, isProcessing, pageVars, soundVars, isPlaying,
                   flagVars, ttsRequestId, gens, tasks, engineVars, alert>>
    /\ UNCHANGED compVars

\* the /health response of check i arrives: response.ok, or not / fetch rejected
CheckServerDone(i, ok) ==
    /\ checks[i] = "pending"
    /\ serverStatus' = IF ok THEN "connected" ELSE "error"
    /\ checks' = Forget([checks EXCEPT ![i] = "done"])
    /\ UNCHANGED <<screen, permission, isProcessing, pageVars, soundVars, isPlaying,
                   flagVars, ttsRequestId, gens, tasks, engineVars, alert>>
    /\ UNCHANGED compVars

\* onPress of the Take Photo button; granted is the user's answer to
\* requestPermission()
TakePhoto(granted) ==
    /\ screen = "home"
    /\ CanPress
    /\ IF serverStatus # "connected"
       THEN /\ alert' = "Server not connected"
            /\ UNCHANGED <<screen, permission>>
       ELSE IF ~permission
            THEN /\ permission' = granted
                 /\ UNCHANGED <<screen, alert>>
            ELSE /\ screen' = "camera"
                 /\ UNCHANGED <<permission, alert>>
    /\ UNCHANGED <<serverStatus, checks, isProcessing, pageVars, soundVars, isPlaying,
                   flagVars, ttsRequestId, gens, tasks, engineVars>>
    /\ UNCHANGED compVars

\* the user dismisses the alert dialog
DismissAlert ==
    /\ alert # Null
    /\ alert' = Null
    /\ UNCHANGED <<screen, homeVars, isProcessing, pageVars, soundVars, isPlaying,
                   flagVars, ttsRequestId, gens, tasks, engineVars>>
    /\ UNCHANGED compVars

\* ---- Camera screen --------------------------------------------------------

\* onPress of the Back button; while isProcessing the loading overlay covers
\* the screen and takes the touches
CameraBack ==
    /\ screen = "camera"
    /\ CanPress
    /\ ~isProcessing
    /\ screen' = "home"
    /\ UNCHANGED <<homeVars, isProcessing, pageVars, soundVars, isPlaying,
                   flagVars, ttsRequestId, gens, tasks, engineVars, alert>>
    /\ UNCHANGED compVars

\* HandleCapture without the isProcessing test of line 160 and the disabled
\* capture button
HandleCaptureUnguarded ==
    /\ screen = "camera"
    /\ CanPress
    /\ permission
    /\ EpochFree(2)
    /\ TaskFree
    /\ isProcessing' = TRUE
    /\ Invalidate
    /\ tasks' = AddTask([kind |-> "capture",
                         pc |-> IF soundRef = NoSound THEN "ocr" ELSE "stop",
                         cur |-> soundRef])
    /\ UNCHANGED <<screen, homeVars, pageVars, soundVars, isPlaying, gens,
                   engineVars, alert>>
    /\ UNCHANGED compVars

\* handleCapture up to its first pending await: the stopAsync of cleanupSound
\* when a sound is held, takePictureAsync otherwise
HandleCapture ==
    /\ screen = "camera"
    /\ CanPress
    /\ permission
    /\ ~isProcessing
    /\ EpochFree(2)
    /\ TaskFree
    /\ isProcessing' = TRUE
    /\ Invalidate
    /\ tasks' = AddTask([kind |-> "capture",
                         pc |-> IF soundRef = NoSound THEN "ocr" ELSE "stop",
                         cur |-> soundRef])
    /\ UNCHANGED <<screen, homeVars, pageVars, soundVars, isPlaying, gens,
                   engineVars, alert>>
    /\ UNCHANGED compVars

\* cleanupSound(true) of handler t (capture, go-home or take-another):
\* stopAsync returns
CleanupStop(t) ==
    /\ t \in BagToSet(tasks)
    /\ t.kind \in {"capture", "goHome", "another"}
    /\ t.pc = "stop"
    /\ StopAsync(t.cur)
    /\ tasks' = DropTask(t) (+) SetToBag({[t EXCEPT !.pc = "unload"]})
    /\ UNCHANGED <<screen, homeVars, isProcessing, pageVars, soundVars, flagVars,
                   ttsRequestId, gens, alert>>
    /\ UNCHANGED compVars

\* handleCapture: unloadAsync returns, cleanupSound ends, takePictureAsync starts
CaptureUnload(t) ==
    /\ t \in BagToSet(tasks)
    /\ t.kind = "capture"
    /\ t.pc = "unload"
    /\ UnloadAndClear(t.cur)
    /\ tasks' = DropTask(t) (+) SetToBag({[kind |-> "capture", pc |-> "ocr", cur |-> NoSound]})
    /\ UNCHANGED <<screen, homeVars, isProcessing, pageVars, flagVars,
                   ttsRequestId, gens, alert>>
    /\ UNCHANGED compVars

\* handleCapture: takePictureAsync, manipulateAsync, readAsStringAsync or the
\* /api/ocr request fails (throws, or a non-OK response) with message e
CaptureFail(t, e) ==
    /\ t \in BagToSet(tasks)
    /\ t.kind = "capture"
    /\ t.pc = "ocr"
    /\ alert' = e
    /\ isProcessing' = FALSE
    /\ tasks' = DropTask(t)
    /\ UNCHANGED <<screen, homeVars, pageVars, soundVars, isPlaying, flagVars,
                   ttsRequestId, gens, engineVars>>
    /\ UNCHANGED compVars

\* CaptureResult passing the state of the last render to generateAudio
\* where the code passes the response's text and language
CaptureResultStaleText(t, r) ==
    /\ t \in BagToSet(tasks)
    /\ t.kind = "capture"
    /\ t.pc = "ocr"
    /\ IF NoTextFound(r)
       THEN /\ alert' = "No text found in the image"
            /\ UNCHANGED <<screen, pageVars, flagVars, ttsRequestId, gens>>
       ELSE /\ extractedText' = r.text
            /\ detectedLanguage' = LanguageOf(r)
            /\ screen' = "player"
            /\ GenerateAudio(extractedText, detectedLanguage)
            /\ alert' = alert
    /\ isProcessing' = FALSE
    /\ tasks' = DropTask(t)
    /\ UNCHANGED <<homeVars, soundVars, isPlaying, engineVars>>
    /\ UNCHANGED compVars

\* handleCapture: the /api/ocr response arrives with body r
CaptureResult(t, r) ==
    /\ t \in BagToSet(tasks)
    /\ t.kind = "capture"
    /\ t.pc = "ocr"
    /\ IF NoTextFound(r)
       THEN /\ alert' = "No text found in the image"
            /\ UNCHANGED <<screen, pageVars, flagVars, ttsRequestId, gens>>
       ELSE /\ extractedText' = r.text
            /\ detectedLanguage' = LanguageOf(r)
            /\ screen' = "player"
            /\ GenerateAudio(r.text, LanguageOf(r))
            /\ alert' = alert
    /\ isProcessing' = FALSE
    /\ tasks' = DropTask(t)
    /\ UNCHANGED <<homeVars, soundVars, isPlaying, engineVars>>
    /\ UNCHANGED compVars

\* ---- Player screen --------------------------------------------------------

\* the tail of goHome, after cleanupSound
GoHomeTail ==
    /\ extractedText' = <<>>
    /\ detectedLanguage' = "auto"
    /\ screen' = "home"

\* goHome up to the stopAsync of cleanupSound, or to its end when no sound
\* is held
GoHome ==
    /\ screen = "player"
    /\ CanPress
    /\ EpochFree(1)
    /\ Invalidate
    /\ IF soundRef = NoSound
       THEN /\ GoHomeTail
            /\ tasks' = tasks
       ELSE /\ TaskFree
            /\ tasks' = AddTask([kind |-> "goHome", pc |-> "stop", cur |-> soundRef])
            /\ UNCHANGED <<screen, pageVars>>
    /\ UNCHANGED <<homeVars, isProcessing, soundVars, isPlaying, gens, engineVars, alert>>
    /\ UNCHANGED compVars

\* goHome: unloadAsync returns, cleanupSound ends, the tail of goHome runs
GoHomeUnload(t) ==
    /\ t \in BagToSet(tasks)
    /\ t.kind = "goHome"
    /\ t.pc = "unload"
    /\ UnloadAndClear(t.cur)
    /\ GoHomeTail
    /\ tasks' = DropTask(t)
    /\ UNCHANGED <<homeVars, isProcessing, flagVars, ttsRequestId, gens, alert>>
    /\ UNCHANGED compVars

\* onPress of Take Another Photo up to the stopAsync of cleanupSound, or to
\* its end when no sound is held
TakeAnother ==
    /\ screen = "player"
    /\ CanPress
    /\ EpochFree(1)
    /\ Invalidate
    /\ IF soundRef = NoSound
       THEN /\ screen' = "camera"
            /\ tasks' = tasks
       ELSE /\ TaskFree
            /\ tasks' = AddTask([kind |-> "another", pc |-> "stop", cur |-> soundRef])
            /\ screen' = screen
    /\ UNCHANGED <<homeVars, isProcessing, pageVars, soundVars, isPlaying, gens,
                   engineVars, alert>>
    /\ UNCHANGED compVars

\* Take Another Photo: unloadAsync returns, cleanupSound ends, setScreen('camera')
TakeAnotherUnload(t) ==
    /\ t \in BagToSet(tasks)
    /\ t.kind = "another"
    /\ t.pc = "unload"
    /\ UnloadAndClear(t.cur)
    /\ screen' = "camera"
    /\ tasks' = DropTask(t)
    /\ UNCHANGED <<homeVars, isProcessing, pageVars, flagVars, ttsRequestId, gens, alert>>
    /\ UNCHANGED compVars

\* the retry button is rendered only while ttsError is set
RetryShown == screen = "player" /\ ttsError # Null

\* onPress of Retry Audio
Retry ==
    /\ RetryShown
    /\ CanPress
    /\ EpochFree(1)
    /\ GenerateAudio(extractedText, detectedLanguage)
    /\ UNCHANGED <<screen, homeVars, isProcessing, pageVars, soundVars, isPlaying,
                   tasks, engineVars, alert>>
    /\ UNCHANGED compVars

\* the play button is disabled while audioReady is false
PlayEnabled == screen = "player" /\ audioReady

\* playPause up to its await of pauseAsync or playAsync
PlayPause ==
    /\ PlayEnabled
    /\ CanPress
    /\ sound # NoSound
    /\ TaskFree
    /\ tasks' = AddTask([kind |-> "playPause",
                         pc |-> IF isPlaying THEN "pause" ELSE "play",
                         cur |-> sound])
    /\ UNCHANGED <<screen, homeVars, isProcessing, pageVars, soundVars, isPlaying,
                   flagVars, ttsRequestId, gens, engineVars, alert>>
    /\ UNCHANGED compVars

\* playPause: pauseAsync or playAsync returns; on an unloaded handle it throws
\* and playPause ends there
PlayPauseDone(t) ==
    /\ t \in BagToSet(tasks)
    /\ t.kind = "playPause"
    /\ IF t.cur \in loaded
       THEN /\ playing' = IF t.pc = "play" THEN playing \cup {t.cur} ELSE playing \ {t.cur}
            /\ isPlaying' = (t.pc = "play")
       ELSE UNCHANGED <<playing, isPlaying>>
    /\ tasks' = DropTask(t)
    /\ UNCHANGED <<screen, homeVars, isProcessing, pageVars, soundVars, flagVars,
                   ttsRequestId, gens, loaded, alert>>
    /\ UNCHANGED compVars

\* the engine plays handle s to its end and reports didJustFinish
PlaybackFinish(s) ==
    /\ s \in playing
    /\ playing' = playing \ {s}
    /\ isPlaying' = FALSE
    /\ UNCHANGED <<screen, homeVars, isProcessing, pageVars, soundVars, flagVars,
                   ttsRequestId, gens, tasks, loaded, alert>>
    /\ UNCHANGED compVars

\* a periodic status report of loaded handle s reaches onPlaybackStatusUpdate
PlaybackStatus(s) ==
    /\ s \in loaded
    /\ isPlaying # OnPlaybackStatusUpdate(s, loaded, playing, isPlaying)
    /\ isPlaying' = OnPlaybackStatusUpdate(s, loaded, playing, isPlaying)
    /\ UNCHANGED <<screen, homeVars, isProcessing, pageVars, soundVars, flagVars,
                   ttsRequestId, gens, tasks, engineVars, alert>>
    /\ UNCHANGED compVars

\* ---- AudioPlayer component (src/components/AudioPlayer.tsx) ---------------
\* One instance of the component under any parent: the parent mounts it,
\* hands it new payloads and unmounts it.  Its state hooks sound, isPlaying
\* and soundRef, the engine's loaded and playing and the handlers in flight
\* (tasks) are the variables of the same names.

\* the setters of an unmounted component do nothing
Live == mounted

HandlerFree == BagCardinality(tasks) < MaxHandlers

\* PlayerStatusUpdate without the didJustFinish branch
PlayerStatusUpdateNoFinish(h, ld, pl, pm, finished) ==
    IF Live /\ h \in ld
    THEN /\ position' = pm[h] \div 1000
         /\ isPlaying' = (h \in pl)
    ELSE UNCHANGED <<position, isPlaying>>

\* onPlaybackStatusUpdate for handle h once the engine has the handles ld
\* loaded, plays pl and holds the positions pm; finished is didJustFinish
PlayerStatusUpdate(h, ld, pl, pm, finished) ==
    IF Live /\ h \in ld
    THEN /\ position' = IF finished THEN 0 ELSE pm[h] \div 1000
         /\ isPlaying' = IF finished THEN FALSE ELSE h \in pl
    ELSE UNCHANGED <<position, isPlaying>>

\* the cleanup of the effect that loads payload e: the held handle is
\* unloaded without waiting and the ref is cleared
EffectCleanup(e) ==
    /\ loaded' = loaded \ {soundRef}
    /\ playing' = playing \ {soundRef}
    /\ soundRef' = NoSound

\* the effect for payload e starts loadAudio, which runs up to its first
\* await with ref the value of soundRef.current
LoadAudio(ref) ==
    [pc |-> IF ref # NoSound THEN "unloadOld" ELSE "mode", isMounted |-> TRUE, cur |-> ref]

\* the parent renders the component with the next payload: the cleanup of the
\* last effect runs, then the effect for the new payload
ChangeAudio(d) ==
    /\ mounted
    /\ audioBase64 < MaxLoads
    /\ audioBase64' = audioBase64 + 1
    /\ duration' = d
    /\ EffectCleanup(audioBase64)
    /\ loads' = [loads EXCEPT ![audioBase64].isMounted = FALSE,
                              ![audioBase64 + 1] = LoadAudio(NoSound)]
    /\ UNCHANGED <<mounted, sound, isPlaying, position, positionMillis, tasks>>
    /\ UNCHANGED speedVars
    /\ UNCHANGED parentVars

\* the parent takes the component off the screen: the cleanup runs
Unmount ==
    /\ mounted
    /\ mounted' = FALSE
    /\ EffectCleanup(audioBase64)
    /\ loads' = [loads EXCEPT ![audioBase64].isMounted = FALSE]
    /\ UNCHANGED <<audioBase64, duration, sound, isPlaying, position, positionMillis, tasks>>
    /\ UNCHANGED speedVars
    /\ UNCHANGED parentVars

\* loadAudio of payload e: an awaited unloadAsync returns (of the handle found
\* in soundRef at the start, or of the new handle made for an effect that was
\* cleaned up meanwhile) and soundRef.current is set to null
LoadUnload(e) ==
    /\ loads[e].pc \in {"unloadOld", "unloadNew"}
    /\ loaded' = loaded \ {loads[e].cur}
    /\ playing' = playing \ {loads[e].cur}
    /\ soundRef' = NoSound
    /\ loads' = [loads EXCEPT ![e].pc = IF loads[e].pc = "unloadOld" THEN "mode" ELSE "done",
                              ![e].cur = NoSound]
    /\ UNCHANGED <<mounted, audioBase64, duration, sound, isPlaying, position,
                   positionMillis, tasks>>
    /\ UNCHANGED speedVars
    /\ UNCHANGED parentVars

\* loadAudio of payload e: setAudioModeAsync returns (ok) or throws
LoadMode(e, ok) ==
    /\ loads[e].pc = "mode"
    /\ loads' = [loads EXCEPT ![e].pc = IF ok THEN "write" ELSE "failed"]
    /\ UNCHANGED <<mounted, audioBase64, duration, sound, soundRef, isPlaying, position,
                   positionMillis, tasks, engineVars>>
    /\ UNCHANGED speedVars
    /\ UNCHANGED parentVars

\* loadAudio of payload e: writeAsStringAsync returns (ok) or throws
LoadWrite(e, ok) ==
    /\ loads[e].pc = "write"
    /\ loads' = [loads EXCEPT ![e].pc = IF ok THEN "create" ELSE "failed"]
    /\ UNCHANGED <<mounted, audioBase64, duration, sound, soundRef, isPlaying, position,
                   positionMillis, tasks, engineVars>>
    /\ UNCHANGED speedVars
    /\ UNCHANGED parentVars

\* loadAudio of payload e: Sound.createAsync returns the new handle (named
\* after the payload) or throws; the new handle reports its first status
LoadCreate(e, ok) ==
    /\ loads[e].pc = "create"
    /\ IF ok
       THEN /\ loaded' = loaded \cup {e}
            /\ playing' = playing
            /\ positionMillis' = [positionMillis EXCEPT ![e] = 0]
            /\ rate' = [rate EXCEPT ![e] = DefaultRate]
            /\ PlayerStatusUpdate(e, loaded \cup {e}, playing,
                                  [positionMillis EXCEPT ![e] = 0], FALSE)
            /\ soundRef' = e
            /\ IF loads[e].isMounted
               THEN /\ sound' = e
                    /\ loads' = [loads EXCEPT ![e].pc = "done"]
               ELSE /\ sound' = sound
                    /\ loads' = [loads EXCEPT ![e].pc = "unloadNew", ![e].cur = e]
       ELSE /\ loads' = [loads EXCEPT ![e].pc = "failed"]
            /\ UNCHANGED <<sound, soundRef, isPlaying, position, positionMillis, rate,
                           engineVars>>
    /\ UNCHANGED <<mounted, audioBase64, duration, tasks, playbackSpeed>>
    /\ UNCHANGED parentVars

\* SliderValue without the maximumValue of the Slider
SliderValueNoMax(x) == IF x < 0 THEN 0 ELSE x

\* the value the Slider reports for a gesture that ends at x: it keeps its
\* value between minimumValue (0) and maximumValue (duration)
SliderValue(x) == IF x < 0 THEN 0 ELSE IF x > duration THEN duration ELSE x

\* seekTo up to its await of setPositionAsync
SeekTo(seconds) ==
    /\ sound # NoSound
    /\ HandlerFree
    /\ tasks' = AddTask([kind |-> "seekTo", pc |-> "seek", cur |-> sound, arg |-> seconds * 1000])
    /\ UNCHANGED <<mounted, audioBase64, duration, loads, sound, soundRef, isPlaying,
                   position, positionMillis, engineVars>>
    /\ UNCHANGED speedVars
    /\ UNCHANGED parentVars

\* onSlidingComplete of the Slider, for a gesture that ends at x
SlidingComplete(x) ==
    /\ mounted
    /\ SeekTo(SliderValue(x))

\* restart up to its await of setPositionAsync(0)
Restart ==
    /\ mounted
    /\ sound # NoSound
    /\ HandlerFree
    /\ tasks' = AddTask([kind |-> "restart", pc |-> "seek", cur |-> sound, arg |-> 0])
    /\ UNCHANGED <<mounted, audioBase64, duration, loads, sound, soundRef, isPlaying,
                   position, positionMillis, engineVars>>
    /\ UNCHANGED speedVars
    /\ UNCHANGED parentVars

\* togglePlayPause up to its await of pauseAsync or playAsync
TogglePlayPause ==
    /\ mounted
    /\ sound # NoSound
    /\ HandlerFree
    /\ tasks' = AddTask([kind |-> "toggle", pc |-> IF isPlaying THEN "pause" ELSE "play",
                         cur |-> sound, arg |-> 0])
    /\ UNCHANGED <<mounted, audioBase64, duration, loads, sound, soundRef, isPlaying,
                   position, positionMillis, engineVars>>
    /\ UNCHANGED speedVars
    /\ UNCHANGED parentVars

\* setPositionAsync of handler t returns: the engine has moved the handle and
\* reports its status; on an unloaded handle the call throws and the handler
\* ends.  restart goes on to playAsync
SeekDone(t) ==
    /\ t \in BagToSet(tasks)
    /\ t.kind \in {"seekTo", "restart"}
    /\ t.pc = "seek"
    /\ IF t.cur \in loaded
       THEN /\ positionMillis' = [positionMillis EXCEPT ![t.cur] = t.arg]
            /\ PlayerStatusUpdate(t.cur, loaded, playing,
                                  [positionMillis EXCEPT ![t.cur] = t.arg], FALSE)
            /\ tasks' = IF t.kind = "restart"
                        THEN DropTask(t) (+) SetToBag({[t EXCEPT !.pc = "play"]})
                        ELSE DropTask(t)
       ELSE /\ UNCHANGED <<positionMillis, position, isPlaying>>
            /\ tasks' = DropTask(t)
    /\ UNCHANGED <<mounted, audioBase64, duration, loads, sound, soundRef, engineVars>>
    /\ UNCHANGED speedVars
    /\ UNCHANGED parentVars

\* playAsync or pauseAsync of handler t returns and the handle reports its
\* status; on an unloaded handle the call throws
PlayDone(t) ==
    /\ t \in BagToSet(tasks)
    /\ t.kind \in {"toggle", "restart"}
    /\ t.pc \in {"play", "pause"}
    /\ IF t.cur \in loaded
       THEN /\ playing' = IF t.pc = "play" THEN playing \cup {t.cur} ELSE playing \ {t.cur}
            /\ PlayerStatusUpdate(t.cur, loaded,
                                  IF t.pc = "play" THEN playing \cup {t.cur} ELSE playing \ {t.cur},
                                  positionMillis, FALSE)
       ELSE UNCHANGED <<playing, position, isPlaying>>
    /\ tasks' = DropTask(t)
    /\ UNCHANGED <<mounted, audioBase64, duration, loads, sound, soundRef, loaded,
                   positionMillis>>
    /\ UNCHANGED speedVars
    /\ UNCHANGED parentVars

\* SetRateAsync taking speed as a change of the rate the handle has
SetRateAsyncRelative(h, speed) == [rate EXCEPT ![h] = @ + speed - DefaultRate]

\* sound.setRateAsync(speed, true) on handle h: the engine takes the rate as
\* it is given (it refuses rates below 0 and above 32 only)
SetRateAsync(h, speed) == [rate EXCEPT ![h] = speed]

\* changeSpeed up to its await of setRateAsync; it is the onPress of the
\* button of one of the speedOptions
ChangeSpeed(speed) ==
    /\ mounted
    /\ speed \in SpeedOptions
    /\ sound # NoSound
    /\ HandlerFree
    /\ tasks' = AddTask([kind |-> "changeSpeed", pc |-> "rate", cur |-> sound, arg |-> speed])
    /\ UNCHANGED <<mounted, audioBase64, duration, loads, sound, soundRef, isPlaying,
                   position, positionMillis, engineVars>>
    /\ UNCHANGED speedVars
    /\ UNCHANGED parentVars

\* changeSpeed: setRateAsync returns, the handle reports its status and
\* setPlaybackSpeed runs; on an unloaded handle the call throws and
\* changeSpeed ends there
SpeedDone(t) ==
    /\ t \in BagToSet(tasks)
    /\ t.kind = "changeSpeed"
    /\ IF t.cur \in loaded
       THEN /\ rate' = SetRateAsync(t.cur, t.arg)
            /\ PlayerStatusUpdate(t.cur, loaded, playing, positionMillis, FALSE)
            /\ playbackSpeed' = IF Live THEN t.arg ELSE playbackSpeed
       ELSE UNCHANGED <<rate, position, isPlaying, playbackSpeed>>
    /\ tasks' = DropTask(t)
    /\ UNCHANGED <<mounted, audioBase64, duration, loads, sound, soundRef, positionMillis,
                   engineVars>>
    /\ UNCHANGED parentVars

\* the engine plays handle h for one more second and reports its status
PlayerProgress(h) ==
    /\ h \in playing
    /\ positionMillis[h] + 1000 <= duration * 1000
    /\ positionMillis' = [positionMillis EXCEPT ![h] = @ + 1000]
    /\ PlayerStatusUpdate(h, loaded, playing, [positionMillis EXCEPT ![h] = @ + 1000], FALSE)
    /\ UNCHANGED <<mounted, audioBase64, duration, loads, sound, soundRef, tasks, engineVars>>
    /\ UNCHANGED speedVars
    /\ UNCHANGED parentVars

\* onPlaybackComplete?.() of the status callback: the parent's callback is
\* called when the parent passed one
NotifyParent ==
    /\ completions' = IF onPlaybackComplete THEN completions + 1 ELSE completions
    /\ onPlaybackComplete' = onPlaybackComplete

\* the engine plays handle h to its end and reports didJustFinish
PlayerFinish(h) ==
    /\ h \in playing
    /\ positionMillis[h] + 1000 > duration * 1000
    /\ onPlaybackComplete => completions < MaxCompletions
    /\ playing' = playing \ {h}
    /\ PlayerStatusUpdate(h, loaded, playing \ {h}, positionMillis, TRUE)
    /\ NotifyParent
    /\ UNCHANGED <<mounted, audioBase64, duration, loads, sound, soundRef, tasks, loaded,
                   positionMillis>>
    /\ UNCHANGED speedVars

\* what the component leaves alone: the orchestrator's and the screens' state
compFrame == <<screen, serverStatus, permission, isProcessing, extractedText,
               detectedLanguage, audioReady, isGeneratingAudio, ttsError, ttsRequestId,
               gens, alert, checks, ttsModelLoaded>>

\* the AudioPlayer is mounted with its first payload and the effect runs
InitAudioPlayer ==
    /\ screen = "player"
    /\ serverStatus = "connected"
    /\ permission = TRUE
    /\ isProcessing = FALSE
    /\ extractedText = <<"a">>
    /\ detectedLanguage = "en"
    /\ audioReady = FALSE
    /\ isGeneratingAudio = FALSE
    /\ ttsError = Null
    /\ ttsRequestId = 0
    /\ gens = [r \in Epochs |-> NoGen]
    /\ alert = Null
    /\ checks = <<>>
    /\ ttsModelLoaded = TRUE
    /\ sound = NoSound
    /\ soundRef = NoSound
    /\ isPlaying = FALSE
    /\ loaded = {}
    /\ playing = {}
    /\ tasks = EmptyBag
    /\ mounted = TRUE
    /\ audioBase64 = 1
    /\ duration \in 1..MaxDuration
    /\ loads = [e \in Payloads |-> IF e = 1 THEN LoadAudio(NoSound) ELSE NoLoad]
    /\ position = 0
    /\ positionMillis = [h \in Payloads |-> 0]
    /\ playbackSpeed = DefaultRate
    /\ rate = [h \in Payloads |-> DefaultRate]
    /\ onPlaybackComplete \in BOOLEAN
    /\ completions = 0

AudioPlayerNext ==
    \/ \E d \in 1..MaxDuration : ChangeAudio(d) /\ UNCHANGED compFrame
    \/ Unmount /\ UNCHANGED compFrame
    \/ \E e \in Payloads : LoadUnload(e) /\ UNCHANGED compFrame
    \/ \E e \in Payloads, ok \in BOOLEAN : LoadMode(e, ok) /\ UNCHANGED compFrame
    \/ \E e \in Payloads, ok \in BOOLEAN : LoadWrite(e, ok) /\ UNCHANGED compFrame
    \/ \E e \in Payloads, ok \in BOOLEAN : LoadCreate(e, ok) /\ UNCHANGED compFrame
    \/ \E x \in -1 .. MaxDuration + 1 : SlidingComplete(x) /\ UNCHANGED compFrame
    \/ Restart /\ UNCHANGED compFrame
    \/ TogglePlayPause /\ UNCHANGED compFrame
    \/ \E t \in BagToSet(tasks) : SeekDone(t) /\ UNCHANGED compFrame
    \/ \E t \in BagToSet(tasks) : PlayDone(t) /\ UNCHANGED compFrame
    \/ \E h \in Payloads : PlayerProgress(h) /\ UNCHANGED compFrame
    \/ \E h \in Payloads : PlayerFinish(h) /\ UNCHANGED compFrame

SpecAudioPlayer == InitAudioPlayer /\ [][AudioPlayerNext]_vars

\* the speed buttons of the AudioPlayer: changeSpeed reads sound and writes
\* the rate of the handle and playbackSpeed, which no other handler reads,
\* so the buttons are followed with the loads and without the transport
SpeedNext ==
    \/ \E d \in 1..MaxDuration : ChangeAudio(d) /\ UNCHANGED compFrame
    \/ Unmount /\ UNCHANGED compFrame
    \/ \E e \in Payloads : LoadUnload(e) /\ UNCHANGED compFrame
    \/ \E e \in Payloads, ok \in BOOLEAN : LoadMode(e, ok) /\ UNCHANGED compFrame
    \/ \E e \in Payloads, ok \in BOOLEAN : LoadWrite(e, ok) /\ UNCHANGED compFrame
    \/ \E e \in Payloads, ok \in BOOLEAN : LoadCreate(e, ok) /\ UNCHANGED compFrame
    \/ \E speed \in SpeedOptions : ChangeSpeed(speed) /\ UNCHANGED compFrame
    \/ \E t \in BagToSet(tasks) : SpeedDone(t) /\ UNCHANGED compFrame

SpecSpeed == InitAudioPlayer /\ [][SpeedNext]_vars

\* ---- the screens of the component version (src/screens) -------------------
\* HomeScreen, CameraScreen and PlayerScreen under a stack navigator, with
\* the ApiService client.  screen is the route on top of the stack (Home
\* stays under it), extractedText and detectedLanguage are the text and
\* language of the Player route's params, serverStatus, permission and
\* isProcessing are the state hooks of these names.  The AudioPlayer the
\* Player screen renders gets props only and is followed on its own above.

\* the ways a request of the ApiService client fails, as the error axios hands
\* to the response interceptor: with a response (a non-2xx status, its body
\* with or without a detail), without one though the request was sent (the
\* timeout ran out, or the server cannot be reached), or before it was sent
AxiosErrors ==
    [rejected   |-> [response |-> TRUE,  request |-> TRUE,  detail |-> "Text too long"],
     rejectedNoDetail |-> [response |-> TRUE,  request |-> TRUE,  detail |-> ""],
     timeout    |-> [response |-> FALSE, request |-> TRUE,  detail |-> ""],
     unreachable |-> [response |-> FALSE, request |-> TRUE,  detail |-> ""],
     setup      |-> [response |-> FALSE, request |-> FALSE, detail |-> ""]]

RequestFailures == DOMAIN AxiosErrors

\* the message of the Error the response interceptor throws for error
Interceptor(error) ==
    IF error.response
    THEN IF error.detail # "" THEN error.detail ELSE "Server error"
    ELSE IF error.request
         THEN "Cannot connect to server. Please check your connection."
         ELSE "Request failed. Please try again."

\* the failures of CameraScreen.handleCapture and the message each is
\* caught with: no photo, imageToBase64 throws, readImage throws
ReadFailures == {"capture", "image"} \cup RequestFailures

ReadErrorMessage(f) ==
    IF f = "capture" THEN "Failed to capture photo"
    ELSE IF f = "image" THEN "Failed to process image"
    ELSE Interceptor(AxiosErrors[f])

\* what the screens leave alone: the orchestrator's audio state and the
\* AudioPlayer
screensFrame == <<sound, isPlaying, audioReady, isGeneratingAudio, ttsError, soundRef,
                  ttsRequestId, gens, loaded, playing, mounted, audioBase64, duration,
                  loads, position, positionMillis, playbackSpeed, rate,
                  onPlaybackComplete, completions>>

\* checkServerHealth up to its await of apiService.checkHealth
CheckServerHealth ==
    /\ Len(checks) < MaxChecks
    /\ serverStatus' = "checking"
    /\ checks' = Append(checks, "pending")

\* onPress of the status row of HomeScreen
StatusPress ==
    /\ screen = "home"
    /\ CanPress
    /\ CheckServerHealth
    /\ UNCHANGED <<screen, permission, isProcessing, pageVars, tasks, alert, ttsModelLoaded>>
    /\ UNCHANGED screensFrame

\* checkHealth of check i returns the health body (ok, with its
\* tts_model_loaded) or throws
CheckServerHealthDone(i, ok, modelLoaded) ==
    /\ checks[i] = "pending"
    /\ IF ok
       THEN /\ serverStatus' = "connected"
            /\ ttsModelLoaded' = modelLoaded
       ELSE /\ serverStatus' = "disconnected"
            /\ ttsModelLoaded' = ttsModelLoaded
    /\ checks' = Forget([checks EXCEPT ![i] = "done"])
    /\ UNCHANGED <<screen, permission, isProcessing, pageVars, tasks, alert>>
    /\ UNCHANGED screensFrame

\* handleCameraPress of HomeScreen
HandleCameraPress ==
    /\ screen = "home"
    /\ CanPress
    /\ IF serverStatus # "connected"
       THEN /\ alert' = "Server Unavailable"
            /\ screen' = screen
       ELSE /\ screen' = "camera"
            /\ alert' = alert
    /\ UNCHANGED <<serverStatus, checks, permission, isProcessing, pageVars, tasks,
                   ttsModelLoaded>>
    /\ UNCHANGED screensFrame

\* the Retry button of the Server Unavailable alert
AlertRetry ==
    /\ alert = "Server Unavailable"
    /\ alert' = Null
    /\ CheckServerHealth
    /\ UNCHANGED <<screen, permission, isProcessing, pageVars, tasks, ttsModelLoaded>>
    /\ UNCHANGED screensFrame

\* requestPermission of CameraScreen, from its effect or its Grant Permission
\* button; granted is the user's answer
RequestPermission(granted) ==
    /\ screen = "camera"
    /\ ~permission
    /\ permission' = granted
    /\ UNCHANGED <<screen, serverStatus, checks, isProcessing, pageVars, tasks, alert,
                   ttsModelLoaded>>
    /\ UNCHANGED screensFrame

\* navigation.goBack() of the Back button of CameraScreen, which the
\* LoadingOverlay covers while isProcessing
GoBack ==
    /\ screen = "camera"
    /\ CanPress
    /\ ~isProcessing
    /\ screen' = "home"
    /\ UNCHANGED <<serverStatus, checks, permission, isProcessing, pageVars, tasks, alert,
                   ttsModelLoaded>>
    /\ UNCHANGED screensFrame

\* CameraScreen.handleCapture up to its await of takePictureAsync; the camera
\* view, and with it cameraRef.current, is there once permission is granted
CameraHandleCapture ==
    /\ screen = "camera"
    /\ CanPress
    /\ permission
    /\ ~isProcessing
    /\ TaskFree
    /\ isProcessing' = TRUE
    /\ tasks' = AddTask([kind |-> "read", pc |-> "read", cur |-> NoSound])
    /\ UNCHANGED <<screen, serverStatus, checks, permission, pageVars, alert, ttsModelLoaded>>
    /\ UNCHANGED screensFrame

\* CameraScreen.handleCapture: takePictureAsync, imageToBase64 or readImage
\* fails in way f; the catch and finally blocks run
ReadFail(t, f) ==
    /\ t \in BagToSet(tasks)
    /\ t.kind = "read"
    /\ alert' = ReadErrorMessage(f)
    /\ isProcessing' = FALSE
    /\ tasks' = DropTask(t)
    /\ UNCHANGED <<screen, serverStatus, checks, permission, pageVars, ttsModelLoaded>>
    /\ UNCHANGED screensFrame

\* CameraScreen.handleCapture: readImage returns body r; the Player route
\* replaces the Camera route
ReadResult(t, r) ==
    /\ t \in BagToSet(tasks)
    /\ t.kind = "read"
    /\ screen' = "player"
    /\ extractedText' = r.text
    /\ detectedLanguage' = r.lang
    /\ isProcessing' = FALSE
    /\ tasks' = DropTask(t)
    /\ UNCHANGED <<serverStatus, checks, permission, alert, ttsModelLoaded>>
    /\ UNCHANGED screensFrame

\* handleNewCapture of PlayerScreen: the Camera route replaces the Player route
HandleNewCapture ==
    /\ screen = "player"
    /\ CanPress
    /\ screen' = "camera"
    /\ UNCHANGED <<serverStatus, checks, permission, isProcessing, pageVars, tasks, alert,
                   ttsModelLoaded>>
    /\ UNCHANGED screensFrame

\* handleHome of PlayerScreen: back to the Home route
HandleHome ==
    /\ screen = "player"
    /\ CanPress
    /\ screen' = "home"
    /\ UNCHANGED <<serverStatus, checks, permission, isProcessing, pageVars, tasks, alert,
                   ttsModelLoaded>>
    /\ UNCHANGED screensFrame

ScreensNext ==
    \/ StatusPress
    \/ \E i \in 1..MaxChecks, ok \in BOOLEAN, m \in BOOLEAN :
          i <= Len(checks) /\ CheckServerHealthDone(i, ok, m)
    \/ HandleCameraPress
    \/ AlertRetry
    \/ DismissAlert
    \/ \E g \in BOOLEAN : RequestPermission(g)
    \/ GoBack
    \/ CameraHandleCapture
    \/ \E t \in BagToSet(tasks), f \in ReadFailures : ReadFail(t, f)
    \/ \E t \in BagToSet(tasks), r \in OcrResults : ReadResult(t, r)
    \/ HandleNewCapture
    \/ HandleHome

SpecScreens == Init /\ [][ScreensNext]_vars

\* ---- the system -----------------------------------------------------------

GenStep(rid) ==
    \/ \E o \in {"ok"} \cup FetchErrors : GenResponse(rid, o)
    \/ GenStop(rid)
    \/ GenUnload(rid)
    \/ \E ok \in BOOLEAN : GenWrite(rid, ok)
    \/ \E ok \in BOOLEAN : GenCreate(rid, ok)

Next ==
    \/ \E i \in 1..MaxChecks, ok \in BOOLEAN : i <= Len(checks) /\ CheckServerDone(i, ok)
    \/ \E g \in BOOLEAN : TakePhoto(g)
    \/ DismissAlert
    \/ CameraBack
    \/ HandleCapture
    \/ \E t \in BagToSet(tasks) : CleanupStop(t)
    \/ \E t \in BagToSet(tasks) : CaptureUnload(t)
    \/ \E t \in BagToSet(tasks), e \in CaptureErrors : CaptureFail(t, e)
    \/ \E t \in BagToSet(tasks), r \in OcrResults : CaptureResult(t, r)
    \/ GoHome
    \/ \E t \in BagToSet(tasks) : GoHomeUnload(t)
    \/ TakeAnother
    \/ \E t \in BagToSet(tasks) : TakeAnotherUnload(t)
    \/ Retry
    \/ PlayPause
    \/ \E t \in BagToSet(tasks) : PlayPauseDone(t)
    \/ \E s \in Epochs : PlaybackFinish(s)
    \/ \E s \in Epochs : PlaybackStatus(s)
    \/ \E rid \in Epochs : GenStep(rid)

Spec == Init /\ [][Next]_vars

\* every call a synthesis request awaits returns, with a result or with an
\* error: the /api/tts request, stopAsync and unloadAsync of cleanupSound,
\* the file write and createAsync.  Nothing is assumed of the other
\* handlers, nor of what the user does and when
CallsReturn == \A rid \in Epochs : WF_vars(GenStep(rid))

SpecCallsReturn == Spec /\ CallsReturn

\* the Home screen with its status button: health checks that overlap
HomeNext ==
    \/ CheckServer
    \/ \E i \in 1..MaxChecks, ok \in BOOLEAN : i <= Len(checks) /\ CheckServerDone(i, ok)
    \/ \E g \in BOOLEAN : TakePhoto(g)
    \/ DismissAlert
    \/ CameraBack

SpecHome == Init /\ [][HomeNext]_vars

TypeOK ==
    /\ screen \in Screens
    /\ serverStatus \in {"checking", "connected", "error"}
    /\ ttsRequestId \in 0..MaxEpoch
    /\ sound = soundRef
    /\ soundRef \in {NoSound} \cup Epochs
    /\ loaded \subseteq Epochs
    /\ playing \subseteq loaded
    /\ BagCardinality(tasks) <= MaxTasks

\* ---- properties -----------------------------------------------------------

\* what a synthesis completion may apply: the audio flags and the held sound
appliedVars == <<audioReady, ttsError, isGeneratingAudio, sound, soundRef>>

\* C1: a generateAudio invocation changes audioReady, ttsError,
\* isGeneratingAudio or the held sound only in a step in which its requestId
\* is the live ttsRequestId, whatever the interleaving; a superseded request
\* never sets audioReady or installs a sound.
C1_OnlyCurrentRequestApplies ==
    [][\A rid \in Epochs :
          (GenStep(rid) /\ appliedVars' # appliedVars) => ttsRequestId = rid]_vars

\* C3: in every reachable state at most one Audio.Sound handle is loaded.
C3_AtMostOneSoundLoaded == Cardinality(loaded) <= 1

\* the executions of loadAudioFromBase64 in flight, from the start of the
\* file write to the assignment of soundRef
LoadsInFlight == {rid \in Epochs : gens[rid].pc \in {"write", "create"}}

\* C4: at no time are two executions of loadAudioFromBase64 in flight.
C4_NoTwoLoadsInFlight == Cardinality(LoadsInFlight) <= 1

\* the /api/tts response of request rid arrives, whatever it is
ResponseArrives(rid) == \E o \in {"ok"} \cup FetchErrors : GenResponse(rid, o)

\* C2: when the response of a request arrives and its requestId is not the
\* live ttsRequestId, generateAudio returns and nothing the user sees
\* changes: audioReady, ttsError, isGeneratingAudio, sound, isPlaying,
\* extractedText, detectedLanguage, screen, and no alert is raised.
C2_StaleResponseChangesNothing ==
    [][\A rid \in Epochs :
          (ResponseArrives(rid) /\ ttsRequestId # rid)
             => /\ UNCHANGED <<audioReady, ttsError, isGeneratingAudio, sound, soundRef,
                               isPlaying, extractedText, detectedLanguage, screen, alert>>
                /\ gens'[rid].pc = "discarded"]_vars

\* a superseded request was discarded and the audio of a later request is
\* the one that is ready
C2_Witness ==
    \E rid \in Epochs, later \in Epochs :
        /\ rid < later
        /\ gens[rid].pc = "discarded"
        /\ gens[later].pc = "ready"
        /\ audioReady
        /\ soundRef = later

\* C5: the step of handleCapture that dispatches the synthesis request is the
\* step that sets extractedText and makes the screen Player: a request
\* issued by a capture is in flight only after the screen showed its text.
C5_TextShownWhenSynthesisDispatched ==
    [][\A t \in BagToSet(tasks), r \in OcrResults :
          (CaptureResult(t, r) /\ ~NoTextFound(r))
             => /\ screen' = "player"
                /\ extractedText' = r.text
                /\ Len(extractedText') > 0
                /\ gens[ttsRequestId'].pc = "none"
                /\ gens'[ttsRequestId'].pc = "fetch"
                /\ gens'[ttsRequestId'].text = extractedText'
                /\ \A rid \in Epochs : GenInFlight(rid)' /\ ~GenInFlight(rid) => rid = ttsRequestId']_vars

\* a capture has just dispatched its request: the text is on the Player
\* screen and the response has not arrived
C5_Witness ==
    /\ screen = "player"
    /\ ttsRequestId \in Epochs
    /\ gens[ttsRequestId].pc = "fetch"
    /\ gens[ttsRequestId].text = extractedText
    /\ isGeneratingAudio
    /\ ~isProcessing

\* request rid fails: a non-OK response or a network error, or an error
\* while the audio is loaded
GenFails(rid) ==
    \/ \E e \in FetchErrors : GenResponse(rid, e)
    \/ GenWrite(rid, FALSE)
    \/ GenCreate(rid, FALSE)

\* C6: no step of a synthesis request, stale or live, success or failure,
\* changes extractedText, detectedLanguage or screen, and when a failure is
\* applied the text on the Player screen is the text the request was issued
\* for.
C6_SynthesisNeverTouchesText ==
    [][\A rid \in Epochs :
          /\ GenStep(rid) => UNCHANGED <<extractedText, detectedLanguage, screen>>
          /\ (GenFails(rid) /\ ttsError' # ttsError /\ screen' = "player")
                => /\ extractedText' = gens[rid].text
                   /\ detectedLanguage' = gens[rid].lang]_vars

\* a failure has been applied and the text is still on the Player screen
C6_Witness ==
    /\ screen = "player"
    /\ ttsError # Null
    /\ extractedText # <<>>
    /\ \E rid \in Epochs : gens[rid].pc = "failed"

\* C7: when a request fails while its requestId is the live ttsRequestId the
\* state becomes Player(SynthesisFailed): ttsError set, audioReady and
\* isGeneratingAudio false, retry control shown, play control disabled.
C7_CurrentFailureShowsRetry ==
    [][\A rid \in Epochs :
          (GenFails(rid) /\ ttsRequestId = rid)
             => /\ ttsError' # Null
                /\ ~audioReady'
                /\ ~isGeneratingAudio'
                /\ RetryShown'
                /\ ~PlayEnabled'
                /\ gens'[rid].pc = "failed"]_vars

\* the requests issued so far
Issued == {rid \in Epochs : gens[rid].pc # "none"}

\* C8: retry is offered only while ttsError is set; it issues a request for
\* the held text and language under a requestId greater than every earlier
\* one, clears ttsError and sets isGeneratingAudio; a request that is not
\* the live one never becomes the live one again.
C8_RetryIssuesNewEpoch ==
    [][/\ Retry => /\ ttsError # Null
                   /\ screen = "player"
                   /\ ttsRequestId' = ttsRequestId + 1
                   /\ \A rid \in Issued : rid < ttsRequestId'
                   /\ gens'[ttsRequestId'] = [pc |-> "fetch", text |-> extractedText,
                                              lang |-> detectedLanguage, cur |-> NoSound]
                   /\ ttsError' = Null
                   /\ isGeneratingAudio'
       /\ \A rid \in Issued : rid # ttsRequestId => rid # ttsRequestId']_vars

\* a retry is pending: the request right before the live one failed
C8_Witness ==
    /\ ttsRequestId > 1
    /\ gens[ttsRequestId].pc = "fetch"
    /\ gens[ttsRequestId - 1].pc = "failed"
    /\ isGeneratingAudio
    /\ ttsError = Null

\* no request in flight is the live one
NoneCurrent == \A rid \in Epochs : GenInFlight(rid) => rid # ttsRequestId

\* C9: Take Another Photo increments ttsRequestId when pressed, which puts
\* every request issued until then below the live id for good, and changes
\* the screen from Player to Camera only once the sound it found is stopped
\* and unloaded.
C9_NextPageReleasesBeforeCamera ==
    [][/\ TakeAnother => /\ ttsRequestId' = ttsRequestId + 1
                         /\ \A rid \in Issued : rid < ttsRequestId'
                         /\ NoneCurrent'
                         /\ (screen' = "camera") = (soundRef = NoSound)
       /\ ttsRequestId' >= ttsRequestId
       /\ \A t \in BagToSet(tasks) :
             (CleanupStop(t) /\ t.kind = "another") => UNCHANGED screen
       /\ \A t \in BagToSet(tasks) :
             TakeAnotherUnload(t) => /\ t.cur \notin loaded'
                                     /\ t.cur \notin playing'
       /\ (screen = "player" /\ screen' = "camera")
             => (TakeAnother \/ \E t \in BagToSet(tasks) : TakeAnotherUnload(t))]_vars

\* the next page is being captured: the text of the last page is still
\* held, its sound was made and is unloaded, its request is no longer live
C9_Witness ==
    /\ screen = "camera"
    /\ loaded = {}
    /\ \E rid \in Epochs : /\ gens[rid].pc = "ready"
                           /\ gens[rid].text = extractedText
                           /\ rid < ttsRequestId

\* what goHome leaves behind
HomeCleared ==
    /\ screen = "home"
    /\ extractedText = <<>>
    /\ detectedLanguage = "auto"
    /\ ~audioReady
    /\ ~isGeneratingAudio
    /\ ttsError = Null
    /\ soundRef = NoSound
    /\ loaded = {}
    /\ NoneCurrent

\* goHome runs to its end
GoHomeEnds == (GoHome /\ soundRef = NoSound) \/ \E t \in BagToSet(tasks) : GoHomeUnload(t)

\* C10: when goHome ends the screen is Home, the text, the language, the
\* audio flags and the sound are cleared and no earlier request is live, and
\* this stays so for as long as the screen is Home.
C10_HomeStaysCleared ==
    [][/\ GoHomeEnds => HomeCleared'
       /\ (HomeCleared /\ screen' = "home") => HomeCleared']_vars

\* C11: whenever the screen is Home no extraction result is held:
\* extractedText is empty and detectedLanguage is 'auto', whether Home was
\* reached by goHome from Player or by Back from Camera.
C11_HomeHoldsNoResult ==
    screen = "home" => (extractedText = <<>> /\ detectedLanguage = "auto")

\* the runs of loadAudio that have not ended
LoadsPending == {e \in Payloads : loads[e].pc \notin {"none", "done", "failed"}}

\* C18: in the AudioPlayer, for every sequence of payload changes and unmount,
\* also when a change or the unmount comes while an earlier load is in
\* flight, every handle that was created is unloaded once it is superseded
\* or the component is torn down: once the component is unmounted and no
\* load is pending no handle is loaded, and the handle of a superseded
\* payload whose load has ended is not loaded.
C18_EveryHandleUnloaded ==
    /\ (~mounted /\ LoadsPending = {}) => loaded = {}
    /\ \A e \in Payloads : (e < audioBase64 /\ e \notin LoadsPending) => e \notin loaded

\* the gestures on the Slider: from left of its start to right of its end
Gestures == -1 .. MaxDuration + 1

C12_CaptureEntryGuarded ==
    [][((\E g \in BOOLEAN : TakePhoto(g)) \/ HandleCameraPress)
          => /\ screen' = "camera" => (serverStatus = "connected" /\ permission)
             /\ serverStatus # "connected" => (screen' = "home" /\ alert = Null /\ alert' # Null)]_vars

\* the capture of handler t fails: taking the picture, preparing the image
\* or the extraction request fails, or the extraction returns no text
CaptureAborts(t) ==
    \/ \E e \in CaptureErrors : CaptureFail(t, e)
    \/ \E r \in OcrResults : NoTextFound(r) /\ CaptureResult(t, r)
    \/ \E f \in ReadFailures : ReadFail(t, f)

\* C13: a capture that fails aborts in place: the screen is still Camera,
\* extractedText and detectedLanguage are what they were when the capture
\* was started, no synthesis request is issued, no capture is queued, an
\* alert is raised and isProcessing is false again.
C13_FailedCaptureAbortsInPlace ==
    [][/\ \A t \in BagToSet(tasks) :
             CaptureAborts(t)
                => /\ screen' = "camera"
                   /\ UNCHANGED <<extractedText, detectedLanguage, ttsRequestId, gens>>
                   /\ alert' # Null
                   /\ ~isProcessing'
                   /\ \A u \in BagToSet(tasks') : u.kind \notin {"capture", "read"}
       /\ (isProcessing /\ isProcessing')
             => UNCHANGED <<screen, extractedText, detectedLanguage>>]_vars

\* an extraction response with body r arrives at handler t
ExtractionReturns(t, r) == CaptureResult(t, r) \/ ReadResult(t, r)

\* C14: an extraction response whose text is missing, empty or only white
\* space is treated as a failure before any screen transition (the screen
\* and the held text stay, an alert is raised), so whenever the screen is
\* Player the text on display is not empty.
C14_PlayerTextNeverEmpty ==
    [][/\ \A t \in BagToSet(tasks), r \in OcrResults :
             (ExtractionReturns(t, r) /\ NoTextFound(r))
                => /\ UNCHANGED <<screen, extractedText, detectedLanguage>>
                   /\ alert' # Null
       /\ screen' = "player" => Trim(extractedText') # <<>>]_vars

\* C15: the synthesis request issued after a successful extraction carries
\* the text the extraction returned, as returned, and the language it
\* returned ('auto' when it returned none), and these are the extractedText
\* and detectedLanguage held for the Player screen at dispatch.
C15_RequestCarriesExtraction ==
    [][\A t \in BagToSet(tasks), r \in OcrResults :
          (CaptureResult(t, r) /\ ~NoTextFound(r))
             => /\ gens'[ttsRequestId'].pc = "fetch"
                /\ gens'[ttsRequestId'].text = r.text
                /\ gens'[ttsRequestId'].lang = (IF r.lang = "" THEN "auto" ELSE r.lang)
                /\ extractedText' = gens'[ttsRequestId'].text
                /\ detectedLanguage' = gens'[ttsRequestId'].lang
                /\ screen' = "player"]_vars

\* the request of a page whose extraction returned no language is in flight
\* with the text as returned and the language 'auto'
C15_Witness ==
    /\ screen = "player"
    /\ ttsRequestId \in Epochs
    /\ gens[ttsRequestId].pc = "fetch"
    /\ gens[ttsRequestId].text = <<" ", "b">>
    /\ gens[ttsRequestId].lang = "auto"
    /\ extractedText = <<" ", "b">>
    /\ detectedLanguage = "auto"

\* C16: a health check that fails (no response, or a status that is not OK)
\* raises nothing: it sets the server status to error (disconnected in
\* HomeScreen) and leaves the screen and the alert alone; on Home a check can
\* be started by hand whatever the server status is; a check that succeeds
\* sets the status to connected, and with it the capture action leads to
\* the Camera again.
C16_FailedCheckHandledRetryWorks ==
    /\ [][\A i \in 1..MaxChecks :
             /\ (i <= Len(checks) /\ CheckServerDone(i, FALSE))
                   => (serverStatus' = "error" /\ UNCHANGED <<screen, alert>>)
             /\ (i <= Len(checks) /\ CheckServerDone(i, TRUE))
                   => (serverStatus' = "connected" /\ UNCHANGED <<screen, alert>>)
             /\ (i <= Len(checks) /\ \E m \in BOOLEAN : CheckServerHealthDone(i, FALSE, m))
                   => (serverStatus' = "disconnected" /\ UNCHANGED <<screen, alert>>)
             /\ (i <= Len(checks) /\ \E m \in BOOLEAN : CheckServerHealthDone(i, TRUE, m))
                   => (serverStatus' = "connected" /\ UNCHANGED <<screen, alert>>)]_vars
    /\ []((screen = "home" /\ alert = Null /\ Len(checks) < MaxChecks)
             => (ENABLED CheckServer /\ ENABLED StatusPress))
    /\ []((screen = "home" /\ alert = Null /\ serverStatus = "connected" /\ permission)
             => ENABLED (TakePhoto(TRUE) /\ screen' = "camera"))
    /\ []((screen = "home" /\ alert = Null /\ serverStatus = "connected")
             => ENABLED (HandleCameraPress /\ screen' = "camera"))

\* a check started by hand has succeeded while the check of the mount effect
\* is still in flight
C16_Witness ==
    /\ screen = "home"
    /\ serverStatus = "connected"
    /\ checks = <<"pending", "done">>

\* a call of cleanupSound returns at once because no sound is held
CleanupReturnsEarly ==
    /\ soundRef = NoSound
    /\ \/ HandleCapture
       \/ GoHome
       \/ TakeAnother
       \/ \E rid \in Epochs : GenResponse(rid, "ok") /\ IsCurrent(rid)

\* a call of cleanupSound returns after its unloadAsync
CleanupReturnsLate ==
    \/ \E t \in BagToSet(tasks) : CaptureUnload(t) \/ GoHomeUnload(t) \/ TakeAnotherUnload(t)
    \/ \E rid \in Epochs : GenUnload(rid)

\* C17: cleanupSound called again and again never throws, also when
\* stopAsync or unloadAsync fail; after every call no sound is held
\* (soundRef and sound are null) and the playing flag is false, and a call
\* that finds no sound held leaves the audio state as the call before left
\* it.
C17_ReleaseIsIdempotent ==
    [][/\ (CleanupReturnsEarly \/ CleanupReturnsLate)
             => (soundRef' = NoSound /\ sound' = NoSound /\ ~isPlaying')
       /\ CleanupReturnsEarly
             => UNCHANGED <<soundRef, sound, isPlaying, loaded, playing>>]_vars

\* the messages of a server rejection
RejectionMessages == {ReadErrorMessage("rejected"), ReadErrorMessage("rejectedNoDetail")}

\* C19: the client tells a request that timed out from a server that cannot
\* be reached: the two failures are reported with different messages, both
\* differ from the message of a server rejection, and the message of a
\* rejection is the detail field of the response.
C19_FailureKindsDistinguished ==
    [][\A t \in BagToSet(tasks) :
          /\ ReadFail(t, "timeout")
                => (alert' # ReadErrorMessage("unreachable") /\ alert' \notin RejectionMessages)
          /\ ReadFail(t, "unreachable")
                => (alert' # ReadErrorMessage("timeout") /\ alert' \notin RejectionMessages)
          /\ ReadFail(t, "rejected") => alert' = AxiosErrors["rejected"].detail]_vars

\* the multipliers of the recognized range, 0.5 to 2.0, in hundredths
RecognizedRates == {50, 75, 100, 125, 150, 175, 200}

C22_PlayPauseOnlyOnLoaded ==
    /\ []((~audioReady \/ sound = NoSound) => ~ENABLED PlayPause)
    /\ [](sound = NoSound => ~ENABLED TogglePlayPause)
    /\ [][/\ (PlayPause \/ TogglePlayPause)
                => /\ sound \in loaded
                   /\ \E t \in BagToSet(tasks') :
                         /\ tasks' = AddTask(t)
                         /\ t.cur = sound
                         /\ t.pc = (IF isPlaying THEN "pause" ELSE "play")
                   /\ UNCHANGED <<isPlaying, sound, soundRef, loaded, playing, audioReady>>
          /\ \A t \in BagToSet(tasks) :
                ((PlayPauseDone(t) \/ (PlayDone(t) /\ t.kind = "toggle" /\ mounted))
                    /\ t.cur \in loaded)
                   => /\ isPlaying' = (t.pc = "play")
                      /\ (t.cur \in playing') = (t.pc = "play")
                      /\ UNCHANGED <<sound, soundRef, loaded>>]_vars

\* what the completion callback has no business with
completionFrame == <<screen, sound, soundRef, loaded, extractedText, detectedLanguage,
                     ttsRequestId>>

\* C23: when playback reaches the end of the resource the completion
\* callback sets the playing state to false and the position to 0 and
\* notifies the orchestrator, and it changes neither the screen nor the
\* loaded resource, the extracted text or the epoch.
C23_CompletionResetsAndNotifies ==
    [][/\ \A s \in Epochs :
             PlaybackFinish(s) => (~isPlaying' /\ UNCHANGED completionFrame)
       /\ \A h \in Payloads :
             PlayerFinish(h)
                => /\ mounted => (~isPlaying' /\ position' = 0)
                   /\ completions' = completions + 1
                   /\ UNCHANGED completionFrame]_vars

\* C23 (as the code has it): the completion callback sets the playing state
\* to false and, in the AudioPlayer, the position on display to 0; the
\* AudioPlayer calls the parent's onPlaybackComplete when, and only when,
\* the parent passed one; neither callback changes the screen, the loaded
\* resource, the extracted text or the epoch.
C23_CompletionResets ==
    [][/\ \A s \in Epochs :
             PlaybackFinish(s) => (~isPlaying' /\ UNCHANGED completionFrame)
       /\ \A h \in Payloads :
             PlayerFinish(h)
                => /\ mounted => (~isPlaying' /\ position' = 0)
                   /\ h \notin playing'
                   /\ completions' = (IF onPlaybackComplete THEN completions + 1 ELSE completions)
                   /\ UNCHANGED completionFrame]_vars

\* the audio was played to its end: the handle is at the end and stays
\* loaded, the display is back at 0, the parent was told once
C23_Witness ==
    /\ mounted
    /\ sound \in loaded
    /\ sound \notin playing
    /\ positionMillis[sound] = duration * 1000
    /\ position = 0
    /\ ~isPlaying
    /\ completions = 1

\* the playAsync of a press of the play button returns
PlayReturns == \E t \in BagToSet(tasks) : PlayPauseDone(t) /\ t.pc = "play"

\* C24: loading an audio resource never starts playback: in the step in
\* which a synthesis success makes audioReady true the new handle is not
\* playing and the playing flag is false, and from then on the flag turns
\* true, and a handle starts to play, only when a playAsync the user asked
\* for returns.
C24_LoadNeverStartsPlayback ==
    [][/\ \A rid \in Epochs :
             GenCreate(rid, TRUE) => (audioReady' /\ ~isPlaying' /\ rid \notin playing')
       /\ (~isPlaying /\ isPlaying') => PlayReturns
       /\ playing' \subseteq playing \/ PlayReturns]_vars

\* a call of generateAudio: by a capture whose extraction found text, or by
\* the retry button
GenerateAudioCalled ==
    \/ \E t \in BagToSet(tasks), r \in OcrResults : CaptureResult(t, r) /\ ~NoTextFound(r)
    \/ Retry

\* a call of cleanupSound(true)
InvalidatingCleanup == HandleCapture \/ GoHome \/ TakeAnother

\* C25: ttsRequestId never decreases; every generateAudio call and every
\* invalidating cleanupSound call increases it by exactly one and nothing
\* else changes it; a synthesis request carries the value its call left in
\* ttsRequestId, a value no request carried before, so no two requests
\* carry the same requestId and at most one issued request is current.
C25_EpochCountsUpRequestsDistinct ==
    [][/\ ttsRequestId' >= ttsRequestId
       /\ (GenerateAudioCalled \/ InvalidatingCleanup) <=> (ttsRequestId' = ttsRequestId + 1)
       /\ ttsRequestId' \in {ttsRequestId, ttsRequestId + 1}
       /\ GenerateAudioCalled
             => /\ gens[ttsRequestId'].pc = "none"
                /\ gens'[ttsRequestId'].pc = "fetch"
                /\ \A rid \in Epochs \ {ttsRequestId'} : gens'[rid] = gens[rid]
       /\ InvalidatingCleanup => gens' = gens
       /\ \A rid \in Epochs :
             (gens[rid].pc = "none" /\ gens'[rid].pc # "none")
                => (GenerateAudioCalled /\ rid = ttsRequestId')
       /\ \A rid \in Issued : rid <= ttsRequestId]_vars

\* three requests of three presses are in flight under three requestIds and
\* the last one is the current one
C25_Witness ==
    \E r1, r2 \in Epochs :
        /\ r1 < r2
        /\ r2 < ttsRequestId
        /\ GenInFlight(r1)
        /\ GenInFlight(r2)
        /\ GenInFlight(ttsRequestId)

\* C26: in every reachable state audioReady is true only if a loaded sound
\* is held in soundRef, and audioReady turns true only in the step of a
\* synthesis success that loaded the sound it leaves in soundRef.
C26_AudioReadyMeansSoundHeld ==
    [][/\ audioReady' => (soundRef' # NoSound /\ soundRef' \in loaded')
       /\ (~audioReady /\ audioReady')
             => \E rid \in Epochs : /\ GenCreate(rid, TRUE)
                                    /\ soundRef' = rid
                                    /\ rid \in loaded' \ loaded]_vars

\* the Player sub-states that hold: SynthesizingAudio, AudioReady,
\* SynthesisFailed
SubStates ==
    (IF isGeneratingAudio THEN {"SynthesizingAudio"} ELSE {})
       \cup (IF audioReady THEN {"AudioReady"} ELSE {})
       \cup (IF ttsError # Null THEN {"SynthesisFailed"} ELSE {})

\* C27: the Player sub-states are mutually exclusive: in every reachable
\* state at most one of isGeneratingAudio = true, audioReady = true and
\* ttsError non-null holds.
C27_SubStatesExclusive == Cardinality(SubStates) <= 1

\* C28: whenever audioReady is true and a sound is held, the sound was
\* synthesized from the extractedText and detectedLanguage held now: the
\* audio offered for playback and the text on display belong to the same
\* captured page.
C28_AudioMatchesText ==
    (audioReady /\ soundRef # NoSound)
       => /\ gens[soundRef].pc = "ready"
          /\ gens[soundRef].text = extractedText
          /\ gens[soundRef].lang = detectedLanguage

\* the synthesis request that carries the live ttsRequestId has been issued
\* and generateAudio has not returned from it
CurrentInFlight == ttsRequestId \in Epochs /\ GenInFlight(ttsRequestId)

\* C29: isGeneratingAudio is true exactly when the synthesis request whose
\* requestId is the live ttsRequestId has been issued and has not finished.
C29_SpinnerIffCurrentInFlight == isGeneratingAudio <=> CurrentInFlight

\* the spinner is shown for the request of the page on display, past its
\* response and loading, while the request of the page before is still
\* loading too
C29_Witness ==
    /\ isGeneratingAudio
    /\ gens[ttsRequestId].pc = "create"
    /\ \E rid \in Epochs : rid < ttsRequestId /\ gens[rid].pc = "create"

\* C30: when every network call and every audio call returns, every state
\* with isGeneratingAudio = true is followed by a state with
\* isGeneratingAudio = false, whatever captures, retries and navigation are
\* interleaved.
C30_SynthesizingEnds == isGeneratingAudio ~> ~isGeneratingAudio

\* the spinner is shown while the live request waits for the sound of the
\* page before to stop
C30_Witness ==
    /\ isGeneratingAudio
    /\ screen = "player"
    /\ gens[ttsRequestId].pc = "stop"

\* the capture+extract sequences in flight
CapturesInFlight == {t \in BagToSet(tasks) : t.kind \in {"capture", "read"}}

\* C31: at most one capture+extract sequence is in flight at a time:
\* isProcessing is true exactly while one is, and while it is true a capture
\* press is not possible (the button is disabled and handleCapture returns
\* at once), so a sequence starts only when none is in flight.
C31_OneCaptureAtATime ==
    /\ [](/\ Cardinality(CapturesInFlight) <= 1
          /\ \A t \in CapturesInFlight : CopiesIn(t, tasks) = 1
          /\ isProcessing <=> CapturesInFlight # {})
    /\ [](isProcessing => (~ENABLED HandleCapture /\ ~ENABLED CameraHandleCapture))
    /\ [][(HandleCapture \/ CameraHandleCapture)
             => (~isProcessing /\ CapturesInFlight = {} /\ isProcessing')]_vars

\* a capture waits for its extraction on the Camera screen and nothing but
\* isProcessing keeps the capture button from starting another one
C31_Witness ==
    /\ screen = "camera"
    /\ isProcessing
    /\ \E t \in CapturesInFlight : t.pc = "ocr"
    /\ alert = Null
    /\ permission
    /\ TaskFree
    /\ ttsRequestId + 3 <= MaxEpoch

\* a capture+extract sequence returns in this step
CaptureFinishes == CapturesInFlight # {} /\ CapturesInFlight' = {}

\* C32: the screen becomes Player only from Camera; a capture sequence that
\* finishes when the screen is no longer Camera leaves the screen and
\* extractedText as they are and dispatches no synthesis request.
C32_PlayerOnlyFromCamera ==
    [][/\ (screen # "player" /\ screen' = "player") => screen = "camera"
       /\ (CaptureFinishes /\ screen # "camera")
             => UNCHANGED <<screen, extractedText, ttsRequestId, gens>>]_vars

\* the response of health check i arrives in this step
CheckReturns(i) ==
    /\ i \in 1..Len(checks)
    /\ checks[i] = "pending"
    /\ checks' = Forget([checks EXCEPT ![i] = "done"])

\* a health check issued after check i has already returned
Overtaken(i) == \E j \in 1..Len(checks) : j > i /\ checks[j] = "done"

\* the status is 'checking' only while some check is in flight
CheckingOnlyInFlight ==
    serverStatus = "checking" => \E i \in 1..Len(checks) : checks[i] = "pending"

\* the result of a check that was overtaken is not written
OvertakenCheckIgnored ==
    \A i \in 1..MaxChecks : (CheckReturns(i) /\ Overtaken(i)) => serverStatus' = serverStatus

\* C33: when health checks overlap, the result of an earlier-issued check
\* never overwrites the result of a later-issued one, so the status ends as
\* the result of the check issued last; and the status is 'checking' only
\* while some check is in flight.
C33_LastIssuedCheckWins ==
    /\ [][OvertakenCheckIgnored]_vars
    /\ []CheckingOnlyInFlight

\* C34: in the App orchestrator isPlaying is true only while soundRef holds
\* a loaded sound, also when play/pause races with cleanupSound or with a
\* load that replaces the sound.
C34_PlayingMeansSoundLoaded ==
    isPlaying => (soundRef # NoSound /\ soundRef \in loaded)

====
